---- MODULE Spec2Model ----
(***************************************************************************)
(* EarliestDeadlineFirstAlgo of lesson 2 ("Implementing a Custom           *)
(* Algorithm"): the constructor and the schedule method, executed against  *)
(* an interface that answers max_pilot_signal and is_feasible.             *)
(***************************************************************************)
EXTENDS Integers, Sequences, FiniteSets, TLC

\* ---- bounds of the model ------------------------------------------------
MaxEvs == 2
MaxPilot == 2
MaxIncrement == 2
MaxDeparture == 2
MaxCap == 3

VARIABLES interface, increment, max_recompute, pc, active_evs, sorted_evs,
          idx, schedule, ub, evals, calls

vars == <<interface, increment, max_recompute, pc, active_evs, sorted_evs,
          idx, schedule, ub, evals, calls>>

\* ---- the inputs ---------------------------------------------------------
Stations == 1..MaxEvs

\* An EV as schedule reads it (station_id, estimated_departure), with the
\* max_rate attribute the session carries and schedule never reads.
EV == [station_id : Stations,
       estimated_departure : 1..MaxDeparture,
       max_rate : {0, MaxPilot}]

StationIds(evs) == {evs[i].station_id : i \in DOMAIN evs}

\* The two sessions of the worked scenario: A (station 1) leaves at period 3
\* and may draw 32, B (station 2) leaves at period 1 and may draw 16.
ExampleEvs ==
    << [station_id |-> 1, estimated_departure |-> 3, max_rate |-> 32],
       [station_id |-> 2, estimated_departure |-> 1, max_rate |-> 16] >>

\* The lists of active EVs a call may receive: at most one EV per station,
\* every EV with the same battery limit (the events of the notebook are all
\* generated with default_battery_power).  schedule uses a station id only
\* as a dictionary key, so the lists are taken up to a renaming of the
\* stations: the ids increase along the list.
ActiveEvLists ==
    IF interface.site = "example"
    THEN {ExampleEvs}
    ELSE {evs \in UNION {[1..n -> EV] : n \in 0..MaxEvs} :
            /\ \A i, j \in DOMAIN evs : i < j => evs[i].station_id < evs[j].station_id
            /\ \A i, j \in DOMAIN evs : evs[i].max_rate = evs[j].max_rate}

\* The interfaces a scheduler may be attached to.  kind "cap" is a network
\* with the single constraint "sum of all rates <= cap"; kind "opaque" is
\* any pure predicate, its answers fixed the first time they are asked for.
Interfaces ==
    [site : {"bounded"}, kind : {"cap"}, cap : (-1)..MaxCap]
    \cup {[site |-> "bounded", kind |-> "opaque", cap |-> 0]}
    \cup {[site |-> "example", kind |-> "cap", cap |-> 40]}

\* interface.max_pilot_signal(station_id): the values it may report.
max_pilot_signal(station_id) ==
    IF interface.site = "example"
    THEN {ExampleEvs[i].max_rate : i \in {j \in DOMAIN ExampleEvs :
                                           ExampleEvs[j].station_id = station_id}}
    ELSE 0..MaxPilot

RECURSIVE Sum(_, _)
Sum(sch, ids) ==
    IF ids = {} THEN 0
    ELSE LET s == CHOOSE x \in ids : TRUE
         IN sch[s][1] + Sum(sch, ids \ {s})

Accepted == {calls[i].schedule : i \in {j \in DOMAIN calls : calls[j].result}}
Rejected == {calls[i].schedule : i \in {j \in DOMAIN calls : ~calls[j].result}}

\* interface.is_feasible(schedule, 0): the answers it may give.  A pure
\* predicate repeats the answer it gave for the same schedule.
is_feasible(sch) ==
    IF interface.kind = "cap"
    THEN {Sum(sch, DOMAIN sch) <= interface.cap}
    ELSE IF sch \in Accepted THEN {TRUE}
    ELSE IF sch \in Rejected THEN {FALSE}
    ELSE BOOLEAN

\* ---- schedule: the pure parts --------------------------------------------
\* {ev.station_id: [0] for ev in active_evs}
InitialSchedule(evs) == [s \in StationIds(evs) |-> <<0>>]

\* sorted(active_evs, key=lambda x: x.estimated_departure): a stable sort,
\* computed as a left-to-right insertion that puts an element behind every
\* element whose key is not greater.
\* Variant: the element goes in front of the elements with an equal key.
RECURSIVE InsertByDeparture_unstable(_, _)
InsertByDeparture_unstable(e, s) ==
    IF s = <<>> THEN <<e>>
    ELSE IF Head(s).estimated_departure < e.estimated_departure
         THEN <<Head(s)>> \o InsertByDeparture_unstable(e, Tail(s))
         ELSE <<e>> \o s

RECURSIVE InsertByDeparture(_, _)
InsertByDeparture(e, s) ==
    IF s = <<>> THEN <<e>>
    ELSE IF Head(s).estimated_departure <= e.estimated_departure
         THEN <<Head(s)>> \o InsertByDeparture(e, Tail(s))
         ELSE <<e>> \o s

\* Variant: the list is iterated as given.
sorted_omitted(evs) == evs

RECURSIVE sorted(_)
sorted(evs) ==
    IF evs = <<>> THEN <<>>
    ELSE InsertByDeparture(evs[Len(evs)], sorted(SubSeq(evs, 1, Len(evs) - 1)))

\* Variant: schedule[station_id].append(rate).
Put_append(sch, station_id, rate) ==
    [s \in DOMAIN sch \cup {station_id} |->
        IF s # station_id THEN sch[s]
        ELSE IF s \in DOMAIN sch THEN Append(sch[s], rate) ELSE <<rate>>]

\* schedule[station_id] = [rate]
Put(sch, station_id, rate) ==
    [s \in DOMAIN sch \cup {station_id} |->
        IF s = station_id THEN <<rate>> ELSE sch[s]]

\* Variant: while <answer of is_feasible>.
LoopContinues_notDropped(ans) == ans

\* while not <answer of is_feasible>
LoopContinues(ans) == ~ans

\* Variant: the configured increment is ignored.
Decreased_byOne(rate) == rate - 1

\* schedule[ev.station_id][0] -= self._increment
Decreased(rate) == rate - increment

\* Variant: the sign is tested on the rate as it was before the decrement.
BelowZero_beforeDecrement(rate) == rate + increment < 0

\* if schedule[ev.station_id][0] < 0
BelowZero(rate) == rate < 0

\* ---- the state after construction ----------------------------------------
Init ==
    /\ interface \in Interfaces
    /\ increment \in 1..MaxIncrement
    /\ interface.site = "example" => increment = 1
    /\ max_recompute = 1
    /\ pc = "idle"
    /\ active_evs = <<>>
    /\ sorted_evs = <<>>
    /\ idx = 0
    /\ schedule = <<>>
    /\ ub = 0
    /\ evals = 0
    /\ calls = <<>>

\* ---- schedule: the steps --------------------------------------------------
ev == sorted_evs[idx]

\* The call: the initial dictionary and the sort.
Schedule(evs) ==
    /\ pc = "idle"
    /\ active_evs' = evs
    /\ schedule' = InitialSchedule(evs)
    /\ sorted_evs' = sorted(evs)
    /\ idx' = 0
    /\ pc' = "for"
    /\ UNCHANGED <<interface, increment, max_recompute, ub, evals, calls>>

\* for ev in sorted_evs: schedule[ev.station_id] = [max_pilot_signal(...)]
SetMaxRate ==
    /\ pc = "for"
    /\ idx < Len(sorted_evs)
    /\ \E p \in max_pilot_signal(sorted_evs[idx + 1].station_id) :
          /\ schedule' = Put(schedule, sorted_evs[idx + 1].station_id, p)
          /\ ub' = p
    /\ idx' = idx + 1
    /\ evals' = 0
    /\ pc' = "while"
    /\ UNCHANGED <<interface, increment, max_recompute, active_evs, sorted_evs, calls>>

\* while not self.interface.is_feasible(schedule, 0)
WhileTest ==
    /\ pc = "while"
    /\ \E ans \in is_feasible(schedule) :
          /\ calls' = Append(calls, [schedule |-> schedule,
                                     station_id |-> ev.station_id,
                                     result |-> ans])
          /\ pc' = IF LoopContinues(ans) THEN "body" ELSE "for"
    /\ evals' = evals + 1
    /\ UNCHANGED <<interface, increment, max_recompute, active_evs, sorted_evs,
                   idx, schedule, ub>>

\* The loop body: decrement, then clip at 0 and break.
Decrement ==
    /\ pc = "body"
    /\ LET rate == Decreased(schedule[ev.station_id][1])
       IN IF BelowZero(rate)
          THEN /\ schedule' = Put(schedule, ev.station_id, 0)
               /\ pc' = "for"
          ELSE /\ schedule' = [schedule EXCEPT ![ev.station_id][1] = rate]
               /\ pc' = "while"
    /\ UNCHANGED <<interface, increment, max_recompute, active_evs, sorted_evs,
                   idx, ub, evals, calls>>

\* return schedule
Return ==
    /\ pc = "for"
    /\ idx = Len(sorted_evs)
    /\ pc' = "done"
    /\ UNCHANGED <<interface, increment, max_recompute, active_evs, sorted_evs,
                   idx, schedule, ub, evals, calls>>

\* The simulator calls schedule with the EVs that are active.
Call == pc = "idle" /\ \E evs \in ActiveEvLists : Schedule(evs)

Next ==
    \/ Call
    \/ SetMaxRate
    \/ WhileTest
    \/ Decrement
    \/ Return

Spec == Init /\ [][Next]_vars

\* schedule runs to completion once called: the interpreter keeps stepping.
FairSpec == Spec /\ WF_vars(Next)

\* ---- vocabulary of the properties ----------------------------------------
\* The search for sorted_evs[idx] is over and its rate is committed.
SearchEnded == pc = "for" /\ idx > 0

Rate(station_id) == schedule[station_id][1]

Leq(a, b) == DOMAIN a = DOMAIN b /\ \A s \in DOMAIN a : a[s][1] <= b[s][1]

ZeroSchedule == [s \in StationIds(active_evs) |-> <<0>>]

\* Every monotone predicate that accepts the all-zero schedule and gave the
\* answers recorded so far accepts sch.
MustAccept(sch) == \E a \in Accepted \cup {ZeroSchedule} : Leq(sch, a)

\* The oracle is monotone and accepts the all-zero schedule (for an opaque
\* oracle: its answers so far are those of such a predicate).
WellBehaved ==
    IF interface.kind = "cap"
    THEN interface.cap >= 0
    ELSE \A r \in Rejected : ~MustAccept(r)

\* What a well-behaved oracle answers on sch.
OracleAccepts(sch) ==
    IF interface.kind = "cap"
    THEN Sum(sch, DOMAIN sch) <= interface.cap
    ELSE MustAccept(sch)

\* The rates the search may try from the upper bound ub, and 0.
Candidates == {c \in 0..ub : \E k \in 0..ub : c = ub - k * increment} \cup {0}

Min(a, b) == IF a <= b THEN a ELSE b

RECURSIVE SumEarlier(_)
SumEarlier(k) ==
    IF k = 0 THEN 0 ELSE Rate(sorted_evs[k].station_id) + SumEarlier(k - 1)

TypeOK ==
    /\ pc \in {"idle", "for", "while", "body", "done"}
    /\ idx \in 0..Len(sorted_evs)

\* ---- C1 --------------------------------------------------------------------
\* C1: with a monotone oracle that accepts the all-zero schedule, the
\* schedule that schedule returns satisfies is_feasible(schedule, 0).
C1_ReturnedScheduleFeasible ==
    (pc = "done" /\ WellBehaved) => OracleAccepts(schedule)

\* A returned schedule of a well-behaved oracle that rejected a candidate and
\* still gave some station a positive rate.
C1_Witness ==
    /\ pc = "done"
    /\ WellBehaved
    /\ Rejected # {}
    /\ \E s \in DOMAIN schedule : Rate(s) > 0

\* ---- C2 --------------------------------------------------------------------
\* C2: when the oracle rejects the schedule with the searched station at
\* rate 0, schedule signals an error and returns no schedule.
C2_NoReturnAfterBaselineRejected ==
    pc = "done" =>
        ~ \E i \in DOMAIN calls :
              /\ ~calls[i].result
              /\ calls[i].schedule[calls[i].station_id][1] = 0

\* ---- C3 --------------------------------------------------------------------
\* C3: every rate of a returned schedule lies in [0, max_rate] of the
\* station's session, whatever max_pilot_signal reports.
C3_RatesWithinSessionBounds ==
    pc = "done" =>
        \A i \in DOMAIN active_evs :
            /\ 0 <= Rate(active_evs[i].station_id)
            /\ Rate(active_evs[i].station_id) <= active_evs[i].max_rate

\* ---- C4 --------------------------------------------------------------------
\* C4: with a well-behaved oracle the committed rate is a candidate
\* (ub, ub - increment, ... not below 0, or 0), the oracle accepts the
\* schedule holding it, and every greater candidate was tested and rejected.
C4_GreatestAcceptedCandidate ==
    (SearchEnded /\ WellBehaved) =>
        /\ Rate(ev.station_id) \in Candidates
        /\ OracleAccepts(schedule)
        /\ \A c \in Candidates :
              c > Rate(ev.station_id) =>
                  [schedule EXCEPT ![ev.station_id] = <<c>>] \in Rejected

\* A search that rejected its upper bound and stopped at a lower positive rate.
C4_Witness ==
    /\ SearchEnded
    /\ WellBehaved
    /\ 0 < Rate(ev.station_id)
    /\ Rate(ev.station_id) < ub

\* ---- C5 --------------------------------------------------------------------
\* C5: when the search of a session ends, the last oracle evaluation was made
\* on the schedule holding exactly the committed rate, and it returned true.
C5_LastEvaluationVerifiesCommit ==
    SearchEnded =>
        /\ calls # <<>>
        /\ calls[Len(calls)].station_id = ev.station_id
        /\ calls[Len(calls)].schedule = schedule
        /\ calls[Len(calls)].result

\* ---- C6 --------------------------------------------------------------------
\* C6: with the single constraint "sum of rates <= C" (C >= 0) and increment
\* 1, each session, taken in ascending estimated_departure order, gets
\* min(ub, C - rates committed to earlier sessions) while later stations
\* stand at 0; the worked scenario returns {A: [24], B: [16]}.
C6_GreedyUnderSharedCap ==
    /\ (SearchEnded /\ interface.kind = "cap" /\ interface.cap >= 0 /\ increment = 1) =>
          /\ \A j, k \in DOMAIN sorted_evs :
                j <= k => sorted_evs[j].estimated_departure
                              <= sorted_evs[k].estimated_departure
          /\ \A k \in DOMAIN sorted_evs :
                k > idx => schedule[sorted_evs[k].station_id] = <<0>>
          /\ schedule[ev.station_id]
                = << Min(ub, interface.cap - SumEarlier(idx - 1)) >>
    /\ (pc = "done" /\ interface.site = "example") =>
          schedule = [s \in {1, 2} |-> IF s = 1 THEN <<24>> ELSE <<16>>]

\* The worked scenario has returned, A cut down to 24.
C6_Witness ==
    /\ pc = "done"
    /\ interface.site = "example"
    /\ active_evs = ExampleEvs
    /\ schedule[1] = <<24>>
    /\ schedule[2] = <<16>>

C8_ScheduleShape ==
    /\ max_recompute = 1
    /\ pc = "done" =>
          /\ DOMAIN schedule = StationIds(active_evs)
          /\ \A s \in DOMAIN schedule :
                /\ Len(schedule[s]) = 1
                /\ \A offset \in 0..(max_recompute - 1) :
                      offset + 1 \in DOMAIN schedule[s]

\* A schedule for as many EVs as there are stations has been returned.
C8_Witness ==
    /\ pc = "done"
    /\ Len(active_evs) = MaxEvs
    /\ \E s \in DOMAIN schedule : Rate(s) > 0

\* ---- C9 --------------------------------------------------------------------
\* i-th active EV comes before the j-th: earlier departure, or the same
\* departure and earlier in the input list.
Before(i, j) ==
    \/ active_evs[i].estimated_departure < active_evs[j].estimated_departure
    \/ /\ active_evs[i].estimated_departure = active_evs[j].estimated_departure
       /\ i < j

Rank(i) == 1 + Cardinality({j \in DOMAIN active_evs : Before(j, i)})

Position(station_id) ==
    CHOOSE k \in DOMAIN sorted_evs : sorted_evs[k].station_id = station_id

C9_Order ==
    pc # "idle" =>
        /\ Len(sorted_evs) = Len(active_evs)
        /\ \A i \in DOMAIN active_evs : sorted_evs[Rank(i)] = active_evs[i]
        /\ \A i \in DOMAIN calls :
              /\ Position(calls[i].station_id) <= idx
              /\ \A j \in DOMAIN calls :
                    i <= j => Position(calls[i].station_id)
                                 <= Position(calls[j].station_id)
        /\ \A k \in DOMAIN sorted_evs :
              k > idx => schedule[sorted_evs[k].station_id] = <<0>>

C9_Frozen ==
    \A k \in DOMAIN sorted_evs :
        (k < idx \/ (k = idx /\ pc = "for")) =>
            schedule'[sorted_evs[k].station_id] = schedule[sorted_evs[k].station_id]

\* C9: sessions are searched in ascending estimated_departure order, ties in
\* input order; a search starts after the earlier rates are committed, and no
\* later step changes a committed rate.
C9_SequentialEdfOrder == []C9_Order /\ [][C9_Frozen]_vars

\* Two EVs with the same departure, both searched, the one listed first
\* holding a positive rate and the other one cut down to 0.
C9_Witness ==
    /\ pc = "done"
    /\ Len(active_evs) = 2
    /\ active_evs[1].estimated_departure = active_evs[2].estimated_departure
    /\ Rate(active_evs[1].station_id) > 0
    /\ Rate(active_evs[2].station_id) = 0
    /\ calls[Len(calls)].station_id = active_evs[2].station_id
    /\ Len(calls) > 2

\* ---- C10 -------------------------------------------------------------------
C10_EvalBound ==
    idx > 0 => evals <= (ub \div increment) + 1

====
